---- MODULE Spec2Model ----
(***************************************************************************)
(* A model of NetflixAnalyzer (src/netflix_analysis.py).                   *)
(*                                                                         *)
(* Text is modelled as a sequence of one-character strings, so that        *)
(* splitting, substring search, case folding and integer parsing are       *)
(* computed character by character as Python and pandas compute them.      *)
(* A missing text cell (NaN) is the one-element sequence NaN, a missing     *)
(* number is NaNNum, a missing timestamp (NaT) is the empty tuple.          *)
(* A DataFrame is a sequence of rows; a selection of a DataFrame is the     *)
(* sequence of the positions (index labels) of the selected rows.           *)
(***************************************************************************)
EXTENDS Integers, Sequences, FiniteSets, TLC

VARIABLES
    csv,        \* the file at data_path: [exists, columns, rows]
    df,         \* self.df, when it is not None: a sequence of rows
    df_none,    \* TRUE while self.df is None
    columns,    \* the column labels of self.df
    pc,         \* "start", "loaded", "ready", "reported", "raised"
    out         \* what the last operation computed and printed

vars == <<csv, df, df_none, columns, pc, out>>

(* Text helpers *)

NaN == <<"NaN">>
NaNNum == -1
NaT == <<>>

UpperToLower ==
    [c \in {"A","B","C","D","E","F","G","H","I","J","K","L","M",
            "N","O","P","Q","R","S","T","U","V","W","X","Y","Z"} |->
       CASE c = "A" -> "a" [] c = "B" -> "b" [] c = "C" -> "c" [] c = "D" -> "d"
         [] c = "E" -> "e" [] c = "F" -> "f" [] c = "G" -> "g" [] c = "H" -> "h"
         [] c = "I" -> "i" [] c = "J" -> "j" [] c = "K" -> "k" [] c = "L" -> "l"
         [] c = "M" -> "m" [] c = "N" -> "n" [] c = "O" -> "o" [] c = "P" -> "p"
         [] c = "Q" -> "q" [] c = "R" -> "r" [] c = "S" -> "s" [] c = "T" -> "t"
         [] c = "U" -> "u" [] c = "V" -> "v" [] c = "W" -> "w" [] c = "X" -> "x"
         [] c = "Y" -> "y" [] c = "Z" -> "z"]

LowerChar(c) == IF c \in DOMAIN UpperToLower THEN UpperToLower[c] ELSE c

UpperChar(c) ==
    IF \E u \in DOMAIN UpperToLower : UpperToLower[u] = c
    THEN CHOOSE u \in DOMAIN UpperToLower : UpperToLower[u] = c
    ELSE c

\* str.lower()
StrLower(s) == [i \in 1..Len(s) |-> LowerChar(s[i])]

\* str.upper()
StrUpper(s) == [i \in 1..Len(s) |-> UpperChar(s[i])]

IsSpace(c) == c = " "

RECURSIVE LStrip(_)
LStrip(s) == IF s # <<>> /\ IsSpace(Head(s)) THEN LStrip(Tail(s)) ELSE s

RECURSIVE RStrip(_)
RStrip(s) ==
    IF s # <<>> /\ IsSpace(s[Len(s)]) THEN RStrip(SubSeq(s, 1, Len(s) - 1)) ELSE s

\* str.strip()
Strip(s) == LStrip(RStrip(s))

\* s.startswith(p) at 0-based offset i
MatchAt(s, p, i) ==
    /\ i + Len(p) <= Len(s)
    /\ \A j \in 1..Len(p) : s[i + j] = p[j]

\* p in s
StrIn(p, s) == \E i \in 0..Len(s) : MatchAt(s, p, i)

\* str(x) of a cell
PyStr(x) == IF x = NaN THEN <<"n", "a", "n">> ELSE x

\* the least 0-based offset at which sep occurs in s, Len(s) when none
FirstOffset(s, sep) ==
    IF StrIn(sep, s)
    THEN CHOOSE i \in 0..Len(s) :
            /\ MatchAt(s, sep, i)
            /\ \A k \in 0..(i - 1) : ~MatchAt(s, sep, k)
    ELSE Len(s)

\* s.split(sep), sep non-empty
RECURSIVE Split(_, _)
Split(s, sep) ==
    IF ~StrIn(sep, s) THEN <<s>>
    ELSE LET i == FirstOffset(s, sep)
         IN  <<SubSeq(s, 1, i)>> \o Split(SubSeq(s, i + Len(sep) + 1, Len(s)), sep)

Digits == {"0", "1", "2", "3", "4", "5", "6", "7", "8", "9"}

DigitVal(c) ==
    CASE c = "0" -> 0 [] c = "1" -> 1 [] c = "2" -> 2 [] c = "3" -> 3
      [] c = "4" -> 4 [] c = "5" -> 5 [] c = "6" -> 6 [] c = "7" -> 7
      [] c = "8" -> 8 [] c = "9" -> 9

AllDigits(s) == \A i \in 1..Len(s) : s[i] \in Digits

RECURSIVE DecimalValue(_)
DecimalValue(s) ==
    IF s = <<>> THEN 0
    ELSE 10 * DecimalValue(SubSeq(s, 1, Len(s) - 1)) + DigitVal(s[Len(s)])

\* int(tok) raises ValueError unless tok is a decimal literal; the texts
\* of the model carry no sign, underscore or non-ASCII digit
IntRaises(tok) == Strip(tok) = <<>> \/ ~AllDigits(Strip(tok))

\* int(tok)
PyInt(tok) == DecimalValue(Strip(tok))

(* pd.to_datetime(..., format='%B %d, %Y', errors='coerce') and .dt *)

MonthNames == <<
    <<"J", "a", "n", "u", "a", "r", "y">>,
    <<"F", "e", "b", "r", "u", "a", "r", "y">>,
    <<"M", "a", "r", "c", "h">>,
    <<"A", "p", "r", "i", "l">>,
    <<"M", "a", "y">>,
    <<"J", "u", "n", "e">>,
    <<"J", "u", "l", "y">>,
    <<"A", "u", "g", "u", "s", "t">>,
    <<"S", "e", "p", "t", "e", "m", "b", "e", "r">>,
    <<"O", "c", "t", "o", "b", "e", "r">>,
    <<"N", "o", "v", "e", "m", "b", "e", "r">>,
    <<"D", "e", "c", "e", "m", "b", "e", "r">> >>

\* Monday is weekday 0, as in datetime.weekday()
DayNames == <<
    <<"M", "o", "n", "d", "a", "y">>,
    <<"T", "u", "e", "s", "d", "a", "y">>,
    <<"W", "e", "d", "n", "e", "s", "d", "a", "y">>,
    <<"T", "h", "u", "r", "s", "d", "a", "y">>,
    <<"F", "r", "i", "d", "a", "y">>,
    <<"S", "a", "t", "u", "r", "d", "a", "y">>,
    <<"S", "u", "n", "d", "a", "y">> >>

IsLeap(y) == (y % 4 = 0 /\ y % 100 # 0) \/ y % 400 = 0

DaysInMonth(y, m) ==
    IF m = 2 THEN (IF IsLeap(y) THEN 29 ELSE 28)
    ELSE IF m \in {4, 6, 9, 11} THEN 30 ELSE 31

\* the months whose full name is a case-insensitive prefix of s (%B)
MonthsAtStart(s) ==
    {m \in 1..12 : MatchAt(StrLower(s), StrLower(MonthNames[m]), 0)}

\* the text after the month name, with the \s+ of the format consumed
AfterMonth(s, m) ==
    LET rest == SubSeq(s, Len(MonthNames[m]) + 1, Len(s))
    IN  IF rest # <<>> /\ IsSpace(Head(rest)) THEN LStrip(rest) ELSE NaT

\* '%d, %Y' against the rest of the text: <<year, day>> or NaT
DayYear(rest) ==
    LET parts == Split(rest, <<",">>)
    IN  IF Len(parts) # 2 THEN NaT
        ELSE LET d == parts[1]
                 y == LStrip(parts[2])
             IN  IF /\ Len(d) \in {1, 2} /\ AllDigits(d)
                    /\ DecimalValue(d) \in 1..31
                    /\ parts[2] # <<>> /\ IsSpace(Head(parts[2]))
                    /\ Len(y) = 4 /\ AllDigits(y)
                 THEN <<DecimalValue(y), DecimalValue(d)>>
                 ELSE NaT

\* the smallest and largest years a pandas Timestamp holds in full
MinTimestampYear == 1678
MaxTimestampYear == 2261

\* the parsed timestamp <<year, month, day>>, NaT when the text does not
\* match the format exactly or names no calendar day (errors='coerce')
ToDatetime(x) ==
    IF x = NaN \/ MonthsAtStart(x) = {} THEN NaT
    ELSE LET m  == CHOOSE k \in MonthsAtStart(x) : TRUE
             dy == IF AfterMonth(x, m) = NaT THEN NaT ELSE DayYear(AfterMonth(x, m))
         IN  IF dy = NaT THEN NaT
             ELSE IF /\ dy[1] \in MinTimestampYear..MaxTimestampYear
                     /\ dy[2] <= DaysInMonth(dy[1], m)
                  THEN <<dy[1], m, dy[2]>>
                  ELSE NaT

\* .dt.year
DtYear(t) == IF t = NaT THEN NaNNum ELSE t[1]

\* .dt.month_name()
DtMonthName(t) == IF t = NaT THEN NaN ELSE MonthNames[t[2]]

MonthOffset == <<0, 3, 2, 5, 0, 3, 5, 1, 4, 6, 2, 4>>

\* weekday of a Gregorian date, Monday = 0
Weekday(t) ==
    LET y == IF t[2] < 3 THEN t[1] - 1 ELSE t[1]
        s == (y + (y \div 4) - (y \div 100) + (y \div 400) + MonthOffset[t[2]] + t[3]) % 7
    IN  (s + 6) % 7

\* .dt.day_name()
DtDayName(t) == IF t = NaT THEN NaN ELSE DayNames[Weekday(t) + 1]

(* Rows, the file and the inputs the record sets are drawn from *)

Movie == <<"M", "o", "v", "i", "e">>
TVShow == <<"T", "V", " ", "S", "h", "o", "w">>

RawColumns ==
    {"title", "type", "country", "release_year", "rating", "duration",
     "listed_in", "cast", "director", "description", "date_added"}

\* a row of the file in which every optional cell is empty
BlankRow ==
    [title |-> <<"T">>, type |-> Movie, country |-> NaN, release_year |-> 2020,
     rating |-> NaN, duration |-> NaN, listed_in |-> NaN, cast |-> NaN,
     director |-> NaN, description |-> NaN, date_added |-> NaN]

\* every sequence of at most n elements of S
SeqsUpTo(S, n) == UNION {[1..k -> S] : k \in 0..n}

\* a readable file with every column and the given rows
FileOf(rows) == [exists |-> TRUE, columns |-> RawColumns, rows |-> rows]

NoOut == [op |-> "none", status |-> "ok"]

\* the state on entry to NetflixAnalyzer.__init__, for a given set of files
InitWith(files) ==
    /\ csv \in files
    /\ df = <<>>
    /\ df_none = TRUE
    /\ columns = {}
    /\ pc = "start"
    /\ out = NoOut

(* Construction: load_data and preprocess_data *)

\* pd.read_csv succeeds on a readable file; any failure is caught and
\* printed, and self.df stays None
load_data ==
    /\ pc = "start"
    /\ IF csv.exists
       THEN /\ df' = csv.rows
            /\ df_none' = FALSE
            /\ columns' = csv.columns
       ELSE UNCHANGED <<df, df_none, columns>>
    /\ pc' = "loaded"
    /\ UNCHANGED <<csv, out>>

\* x.split(' ')[0]
LeadingToken(x) == Split(x, <<" ">>)[1]

HasMin(x) == StrIn(<<"m", "i", "n">>, PyStr(x))
HasSeason(x) == StrIn(<<"S", "e", "a", "s", "o", "n">>, PyStr(x))

\* lambda x: int(x.split(' ')[0]) if 'min' in str(x) else np.nan
DurationMinRaises(x) == HasMin(x) /\ IntRaises(LeadingToken(x))
DurationMin(x) == IF HasMin(x) THEN PyInt(LeadingToken(x)) ELSE NaNNum

\* lambda x: int(x.split(' ')[0]) if 'Season' in str(x) else np.nan
SeasonsRaises(x) == HasSeason(x) /\ IntRaises(LeadingToken(x))
Seasons(x) == IF HasSeason(x) THEN PyInt(LeadingToken(x)) ELSE NaNNum

\* lambda x: 'Movie' if x == 'Movie' else 'TV Show'
ContentType(x) == IF x = Movie THEN Movie ELSE TVShow

\* lines 38-45: date_added parsed in place, three columns derived from it
WithDates(rows) ==
    [i \in 1..Len(rows) |->
        LET t == ToDatetime(rows[i].date_added)
        IN  [date_added |-> t, year_added |-> DtYear(t),
             month_added |-> DtMonthName(t), day_added |-> DtDayName(t)] @@ rows[i]]

\* lines 48-50
WithDurationMin(rows) ==
    [i \in 1..Len(rows) |->
        [duration_min |-> DurationMin(rows[i].duration)] @@ rows[i]]

\* lines 53-55
WithSeasons(rows) ==
    [i \in 1..Len(rows) |->
        [seasons |-> Seasons(rows[i].duration)] @@ rows[i]]

\* lines 58-60
WithContentType(rows) ==
    [i \in 1..Len(rows) |->
        [content_type |-> ContentType(rows[i].type)] @@ rows[i]]

DateColumns == {"year_added", "month_added", "day_added"}

Raised(op, error) == [op |-> op, status |-> "raised", error |-> error]

\* the exception __init__ propagates out of preprocess_data, "none" when
\* preprocess_data returns
PreprocessError ==
    IF df_none THEN "none"
    ELSE IF "date_added" \notin columns THEN "KeyError"
    ELSE IF "duration" \notin columns THEN "KeyError"
    ELSE IF \E i \in 1..Len(df) : DurationMinRaises(df[i].duration) THEN "ValueError"
    ELSE IF \E i \in 1..Len(df) : SeasonsRaises(df[i].duration) THEN "ValueError"
    ELSE IF "type" \notin columns THEN "KeyError"
    ELSE "none"

\* self.df as preprocess_data leaves it, the columns assigned before an
\* exception included
PreprocessedRows ==
    IF df_none \/ "date_added" \notin columns THEN df
    ELSE IF \/ "duration" \notin columns
            \/ \E i \in 1..Len(df) : DurationMinRaises(df[i].duration)
         THEN WithDates(df)
    ELSE IF \E i \in 1..Len(df) : SeasonsRaises(df[i].duration)
         THEN WithDurationMin(WithDates(df))
    ELSE IF "type" \notin columns
         THEN WithSeasons(WithDurationMin(WithDates(df)))
    ELSE WithContentType(WithSeasons(WithDurationMin(WithDates(df))))

PreprocessedColumns ==
    IF df_none \/ "date_added" \notin columns THEN columns
    ELSE IF \/ "duration" \notin columns
            \/ \E i \in 1..Len(df) : DurationMinRaises(df[i].duration)
         THEN columns \cup DateColumns
    ELSE IF \E i \in 1..Len(df) : SeasonsRaises(df[i].duration)
         THEN columns \cup DateColumns \cup {"duration_min"}
    ELSE IF "type" \notin columns
         THEN columns \cup DateColumns \cup {"duration_min", "seasons"}
    ELSE columns \cup DateColumns \cup {"duration_min", "seasons", "content_type"}

preprocess_data ==
    /\ pc = "loaded"
    /\ df' = PreprocessedRows
    /\ columns' = PreprocessedColumns
    /\ IF PreprocessError = "none"
       THEN pc' = "ready" /\ out' = out
       ELSE pc' = "raised" /\ out' = Raised("preprocess_data", PreprocessError)
    /\ UNCHANGED <<csv, df_none>>

(* Derivation inputs *)

MaxDeriveRows == 2

DeriveDurations ==
    { <<"9", "0", " ", "m", "i", "n">>,
      <<"2", " ", "S", "e", "a", "s", "o", "n", "s">>,
      <<"1", " ", "S", "e", "a", "s", "o", "n", " ", "9", " ", "m", "i", "n">>,
      <<"c", "a", " ", "m", "i", "n">>,
      <<"S", "e", "a", "s", "o", "n", " ", "2">>,
      <<"4", "5">>,
      NaN }

DeriveDates ==
    { <<"M", "a", "y", " ", "1", ",", " ", "2", "0", "2", "0">>,
      <<"F", "e", "b", "r", "u", "a", "r", "y", " ", "3", "0", ",", " ", "2", "0", "2", "1">>,
      <<"s", "o", "o", "n">>,
      NaN }

DeriveTypes == {Movie, TVShow}

DerivePool ==
    {[BlankRow EXCEPT !.duration = d, !.date_added = a, !.type = t] :
        d \in DeriveDurations, a \in DeriveDates, t \in DeriveTypes}

InitDerive == InitWith({FileOf(r) : r \in SeqsUpTo(DerivePool, MaxDeriveRows)})

NextDerive == load_data \/ preprocess_data

SpecDerive == InitDerive /\ [][NextDerive]_vars

(* pandas building blocks of the analyses *)

\* self.df[c]
Column(c) == [i \in 1..Len(df) |-> df[i][c]]

Range(s) == {s[i] : i \in 1..Len(s)}

\* the number of cells of a column equal to k
CountOf(values, k) == Cardinality({i \in 1..Len(values) : values[i] = k})

\* the distinct values of a column in order of first appearance
RECURSIVE Unique(_)
Unique(values) ==
    IF values = <<>> THEN <<>>
    ELSE LET n == Len(values)
             u == Unique(SubSeq(values, 1, n - 1))
         IN  IF values[n] \in Range(u) THEN u ELSE Append(u, values[n])

\* the column without its missing cells (dropna), null being the missing
\* value of the column's type
DropNull(values, null) == SelectSeq(values, LAMBDA v : v # null)

\* value_counts() with the sort left out: the entries in order of first
\* appearance
ValueCountsUnsorted(values, null) ==
    LET keys == Unique(DropNull(values, null))
    IN  {[i \in 1..Len(keys) |-> <<keys[i], CountOf(values, keys[i])>>]}

\* Series.value_counts(): one <<value, count>> entry for each distinct
\* non-missing value, sorted by count descending.  The sort is
\* sort_values' default quicksort, which is not stable, so entries with
\* equal counts may come out in any order.
ValueCounts(values, null) ==
    LET keys == Unique(DropNull(values, null))
        n == Len(keys)
        orders == {p \in Permutations(1..n) :
                      \A i, j \in 1..n :
                          i < j => CountOf(values, keys[p[i]]) >= CountOf(values, keys[p[j]])}
    IN  {[i \in 1..n |-> <<keys[p[i]], CountOf(values, keys[p[i]])>>] : p \in orders}

\* the integers of S in ascending order
RECURSIVE SortedInts(_)
SortedInts(S) ==
    IF S = {} THEN <<>>
    ELSE LET m == CHOOSE x \in S : \A y \in S : x <= y
         IN  <<m>> \o SortedInts(S \ {m})

\* Series.sort_index() of a value_counts() over integer labels: the labels
\* are distinct, so the result is the same for every order of the ties
SortIndex(counts) ==
    LET keys == SortedInts({counts[i][1] : i \in 1..Len(counts)})
    IN  [i \in 1..Len(keys) |->
            LET j == CHOOSE k \in 1..Len(counts) : counts[k][1] = keys[i]
            IN  counts[j]]

\* the characters of the model's texts in code-point order
CodeOrder == <<
    " ", "&", "(", ",", "-", ".",
    "0", "1", "2", "3", "4", "5", "6", "7", "8", "9",
    "A", "B", "C", "D", "E", "F", "G", "H", "I", "J", "K", "L", "M",
    "N", "O", "P", "Q", "R", "S", "T", "U", "V", "W", "X", "Y", "Z",
    "a", "b", "c", "d", "e", "f", "g", "h", "i", "j", "k", "l", "m",
    "n", "o", "p", "q", "r", "s", "t", "u", "v", "w", "x", "y", "z" >>

Code(c) == CHOOSE i \in 1..Len(CodeOrder) : CodeOrder[i] = c

\* a < b for two texts (Python str comparison)
RECURSIVE TextLess(_, _)
TextLess(a, b) ==
    IF b = <<>> THEN FALSE
    ELSE IF a = <<>> THEN TRUE
    ELSE IF Head(a) # Head(b) THEN Code(Head(a)) < Code(Head(b))
    ELSE TextLess(Tail(a), Tail(b))

\* the texts of S in ascending order
RECURSIVE SortedTexts(_)
SortedTexts(S) ==
    IF S = {} THEN <<>>
    ELSE LET m == CHOOSE x \in S : \A y \in S \ {x} : TextLess(x, y)
         IN  <<m>> \o SortedTexts(S \ {m})

\* the columns read as numbers; the others hold text
NumericColumns == {"release_year"}

\* the missing value of a column
NullOf(col) == IF col \in NumericColumns THEN NaNNum ELSE NaN

\* a set of labels of a column in ascending order
SortedLabels(col, S) == IF col \in NumericColumns THEN SortedInts(S) ELSE SortedTexts(S)

\* df.groupby([a, b]).size().unstack(fill_value=0): rows with a missing
\* label in either column are left out (dropna), the row labels are the
\* remaining values of a and the column labels the remaining values of b,
\* both sorted, and a cell holds the number of rows with that pair of labels
CrossTab(a, b) ==
    LET kept == {i \in 1..Len(df) : df[i][a] # NullOf(a) /\ df[i][b] # NullOf(b)}
    IN  [index   |-> SortedLabels(a, {df[i][a] : i \in kept}),
         columns |-> SortedLabels(b, {df[i][b] : i \in kept}),
         cell    |-> [x \in {df[i][a] : i \in kept} |->
                        [y \in {df[i][b] : i \in kept} |->
                            Cardinality({i \in kept : df[i][a] = x /\ df[i][b] = y})]]]

Reported(op, val) == [op |-> op, status |-> "ok", val |-> val]

\* an operation that reads the given columns: self.df is None makes the
\* first subscript raise TypeError, an absent column raises KeyError
AccessError(cols) ==
    IF df_none THEN "TypeError"
    ELSE IF \E c \in cols : c \notin columns THEN "KeyError"
    ELSE "none"

\* the operation ends by raising
Raise(op, error) ==
    /\ pc' = "reported"
    /\ out' = Raised(op, error)
    /\ UNCHANGED <<csv, df, df_none, columns>>

\* the operation ends by returning val
Report(op, val) ==
    /\ pc' = "reported"
    /\ out' = Reported(op, val)
    /\ UNCHANGED <<csv, df, df_none, columns>>

\* the caller takes over again: the dashboard loop prompts for the next
\* choice (it catches what the operation raised), and the script goes on to
\* its next call after an operation that returned; what was printed and
\* returned is gone.  An exception in the script ends the process, which
\* here is a state with no further step taken.
Return ==
    /\ pc = "reported"
    /\ pc' = "ready"
    /\ out' = NoOut
    /\ UNCHANGED <<csv, df, df_none, columns>>

(* Single-key counts and cross-tabulations *)

\* the analysis with the missing cells dropped from self.df itself
\* (dropna(inplace=True)) instead of from the counts
CountAnalysisInPlace(op, col, null) ==
    /\ pc = "ready"
    /\ IF AccessError({col}) # "none"
       THEN Raise(op, AccessError({col}))
       ELSE \E counts \in ValueCounts(Column(col), null) :
                /\ pc' = "reported"
                /\ out' = Reported(op, counts)
                /\ df' = SelectSeq(df, LAMBDA r : r[col] # null)
                /\ UNCHANGED <<csv, df_none, columns>>

\* the value_counts analysis of one column
CountAnalysis(op, col, null) ==
    /\ pc = "ready"
    /\ IF AccessError({col}) # "none"
       THEN Raise(op, AccessError({col}))
       ELSE \E counts \in ValueCounts(Column(col), null) : Report(op, counts)

content_type_analysis == CountAnalysis("content_type_analysis", "content_type", NaN)

country_analysis == CountAnalysis("country_analysis", "country", NaN)

rating_analysis == CountAnalysis("rating_analysis", "rating", NaN)

release_year_analysis ==
    /\ pc = "ready"
    /\ IF AccessError({"release_year"}) # "none"
       THEN Raise("release_year_analysis", AccessError({"release_year"}))
       ELSE \E counts \in ValueCounts(Column("release_year"), NaNNum) :
                Report("release_year_analysis", SortIndex(counts))

advanced_content_analysis ==
    /\ pc = "ready"
    /\ LET cols == {"release_year", "content_type", "country", "rating"}
       IN  IF AccessError(cols) # "none"
           THEN Raise("advanced_content_analysis", AccessError(cols))
           ELSE Report("advanced_content_analysis",
                  [content_by_year |->
                       CrossTab("release_year", "content_type"),
                   country_content |->
                       CrossTab("country", "content_type"),
                   rating_by_year |->
                       CrossTab("release_year", "rating")])

MaxCountRows == 3

US == <<"U", "S">>
IN_ == <<"I", "N">>
PG == <<"P", "G">>
R == <<"R">>

CountRow(t, c, y, r) ==
    [BlankRow EXCEPT !.type = t, !.country = c, !.release_year = y, !.rating = r]

CountPool ==
    { CountRow(Movie, US, 2020, PG),
      CountRow(Movie, IN_, 2019, R),
      CountRow(TVShow, US, 2019, NaN),
      CountRow(TVShow, NaN, 2020, R),
      CountRow(TVShow, IN_, 2020, PG),
      CountRow(Movie, US, NaNNum, R),
      CountRow(Movie, NaN, 2019, PG) }

InitCount == InitWith({FileOf(r) : r \in SeqsUpTo(CountPool, MaxCountRows)})

NextCount ==
    \/ load_data
    \/ preprocess_data
    \/ content_type_analysis
    \/ country_analysis
    \/ release_year_analysis
    \/ rating_analysis
    \/ advanced_content_analysis
    \/ Return

SpecCount == InitCount /\ [][NextCount]_vars

\* re.compile(pat) raises re.error on a pattern it cannot parse; of the
\* characters of the model's texts only an unclosed "(" does that
RegexRaises(pat) == "(" \in Range(pat)

\* re.search(pat, s): pat is a regular expression, in which "." stands
\* for any character and the other characters of the model's texts for
\* themselves; with ignorecase (case=False) letters match in either case
RegexSearch(pat, s, ignorecase) ==
    \E i \in 0..Len(s) :
        /\ i + Len(pat) <= Len(s)
        /\ \A j \in 1..Len(pat) :
              \/ pat[j] = "."
              \/ s[i + j] = pat[j]
              \/ ignorecase /\ LowerChar(s[i + j]) = LowerChar(pat[j])

\* Series.str.contains(pat, case=False, na=False), cell by cell
ContainsNoCase(x, pat) == x # NaN /\ RegexSearch(pat, x, TRUE)

\* Series.str.contains(pat, na=False), cell by cell
Contains(x, pat) == x # NaN /\ RegexSearch(pat, x, FALSE)

(* Multi-valued columns: fan-out counts and co-occurring pairs *)

\* Series.str on a column read from the file: a non-empty column whose
\* cells are all missing is read as float64, and .str raises
\* AttributeError on it
StrAccessorRaises(col) ==
    Len(df) > 0 /\ \A i \in 1..Len(df) : df[i][col] = NaN

\* an operation that starts with self.df[col].str
StrAccessError(col) ==
    IF AccessError({col}) # "none" THEN AccessError({col})
    ELSE IF StrAccessorRaises(col) THEN "AttributeError"
    ELSE "none"

\* .str.split(', '): a list per cell, NaN for a missing cell
StrSplit(values) ==
    [i \in 1..Len(values) |->
        IF values[i] = NaN THEN NaN ELSE Split(values[i], <<",", " ">>)]

\* .explode() of a column of lists: one row per list element, in order; a
\* missing cell stays one missing row
RECURSIVE Explode(_)
Explode(lists) ==
    IF lists = <<>> THEN <<>>
    ELSE (IF Head(lists) = NaN THEN <<NaN>> ELSE Head(lists)) \o Explode(Tail(lists))

\* the first n entries (Series.head, slicing, most_common(n))
FirstN(s, n) == IF Len(s) <= n THEN s ELSE SubSeq(s, 1, n)

\* self.df[col].str.split(', ').explode().value_counts()
FanOutCounts(col) == ValueCounts(Explode(StrSplit(Column(col))), NaN)

genre_analysis ==
    /\ pc = "ready"
    /\ IF StrAccessError("listed_in") # "none"
       THEN Raise("genre_analysis", StrAccessError("listed_in"))
       ELSE \E counts \in FanOutCounts("listed_in") : Report("genre_analysis", counts)

\* the counts are returned; the table of whole director cells by content
\* type is only printed
director_analysis ==
    /\ pc = "ready"
    /\ IF StrAccessError("director") # "none"
       THEN Raise("director_analysis", StrAccessError("director"))
       ELSE IF AccessError({"content_type"}) # "none"
       THEN Raise("director_analysis", AccessError({"content_type"}))
       ELSE \E counts \in FanOutCounts("director") :
               /\ pc' = "reported"
               /\ out' = [op |-> "director_analysis", status |-> "ok", val |-> counts,
                          director_type |->
                              CrossTab("director", "content_type")]
               /\ UNCHANGED <<csv, df, df_none, columns>>

cast_analysis ==
    /\ pc = "ready"
    /\ IF StrAccessError("cast") # "none"
       THEN Raise("cast_analysis", StrAccessError("cast"))
       ELSE \E counts \in FanOutCounts("cast") : Report("cast_analysis", counts)

\* the tuples appended to genre_pairs for one list of genres, in the order
\* of the two nested loops (lines 415-418)
PairsOf(genres) ==
    IF genres = NaN \/ Len(genres) <= 1 THEN <<>>
    ELSE LET n == Len(genres)
             RECURSIVE From(_, _)
             From(i, j) ==
                 IF i > n THEN <<>>
                 ELSE IF j > n THEN From(i + 1, i + 2)
                 ELSE <<<<Strip(genres[i]), Strip(genres[j])>>>> \o From(i, j + 1)
         IN  From(1, 2)

\* genre_pairs: the pairs of every row, in row order (lines 413-418)
RECURSIVE GenrePairs(_)
GenrePairs(lists) ==
    IF lists = <<>> THEN <<>>
    ELSE PairsOf(Head(lists)) \o GenrePairs(Tail(lists))

\* Counter(items): the distinct items in order of first insertion, each
\* with its number of occurrences
Counter(items) ==
    LET keys == Unique(items)
    IN  [i \in 1..Len(keys) |-> <<keys[i], CountOf(items, keys[i])>>]

\* sorted(counts, key=count, reverse=True): a stable sort, so equal counts
\* keep their insertion order
RECURSIVE SortedByCount(_)
SortedByCount(counts) ==
    IF counts = <<>> THEN <<>>
    ELSE LET i == CHOOSE k \in 1..Len(counts) :
                     /\ \A j \in 1..Len(counts) : counts[k][2] >= counts[j][2]
                     /\ \A j \in 1..(k - 1) : counts[j][2] < counts[k][2]
         IN  <<counts[i]>> \o
             SortedByCount(SubSeq(counts, 1, i - 1) \o SubSeq(counts, i + 1, Len(counts)))

\* most_common with the ranking left out: the first n entries as inserted
MostCommonUnsorted(counts, n) == FirstN(counts, n)

\* Counter.most_common(n)
MostCommon(counts, n) == FirstN(SortedByCount(counts), n)

TopGenresShown == 15
TopGenresStacked == 10
TopPairsShown == 10
TopGenresPlotted == 5

\* a cross-tabulation cut down to the rows whose label is in keep
\* (genre_content.loc[genre_content.index.isin(top_genres)])
RowsIn(tab, keep) ==
    [index   |-> SelectSeq(tab.index, LAMBDA x : x \in keep),
     columns |-> tab.columns,
     cell    |-> [x \in DOMAIN tab.cell \cap keep |-> tab.cell[x]]]

\* self.df[mask].groupby('release_year').size() for the rows whose genre
\* text matches the genre taken as a regular expression: the years of
\* those rows in ascending order, each with its number of rows
GenreByYear(genre) ==
    LET rows == {i \in 1..Len(df) :
                    Contains(df[i].listed_in, genre) /\ df[i].release_year # NaNNum}
        years == SortedInts({df[i].release_year : i \in rows})
    IN  [k \in 1..Len(years) |->
            <<years[k], Cardinality({i \in rows : df[i].release_year = years[k]})>>]

\* the labels of a sequence of <<label, count>> entries
Labels(counts) == [k \in 1..Len(counts) |-> counts[k][1]]

\* visualize_genres computes the tables its four charts draw; the drawing
\* itself changes nothing the analyzer holds and is left out.  The pair
\* counts are the third chart's.
visualize_genres ==
    /\ pc = "ready"
    /\ IF StrAccessError("listed_in") # "none"
       THEN Raise("visualize_genres", StrAccessError("listed_in"))
       ELSE IF AccessError({"content_type", "release_year"}) # "none"
       THEN Raise("visualize_genres", AccessError({"content_type", "release_year"}))
       ELSE \E counts \in FanOutCounts("listed_in") :
               LET pair_counts == Counter(GenrePairs(StrSplit(Column("listed_in"))))
                   genre_content == CrossTab("listed_in", "content_type")
                   top_genres == Labels(FirstN(counts, TopGenresStacked))
                   top_5_genres == Labels(FirstN(counts, TopGenresPlotted))
               IN  IF \E k \in 1..Len(top_5_genres) : RegexRaises(top_5_genres[k])
                   THEN Raise("visualize_genres", "re.error")
                   ELSE /\ pc' = "reported"
                        /\ out' = [op |-> "visualize_genres", status |-> "ok",
                                   val |-> pair_counts,
                                   genre_counts |-> FirstN(counts, TopGenresShown),
                                   genre_content_top |->
                                       RowsIn(genre_content, Range(top_genres)),
                                   top_pairs |-> MostCommon(pair_counts, TopPairsShown),
                                   genre_by_year |->
                                       [k \in 1..Len(top_5_genres) |->
                                           <<top_5_genres[k], GenreByYear(top_5_genres[k])>>]]
                        /\ UNCHANGED <<csv, df, df_none, columns>>

MaxFanRows == 2

Dr == <<"D", "r">>
Co == <<"C", "o">>
Kid == <<"K", "i", "d">>
Sep == <<",", " ">>

FanGenres ==
    { Dr,
      Dr \o Sep \o Co,
      Co \o Sep \o Dr,
      Dr \o Sep \o Dr,
      Dr \o Sep \o Co \o Sep \o Kid,
      NaN }

FanCasts == { <<"X">> \o Sep \o <<"Y">>, <<"Y">> \o Sep \o <<"Y">>, NaN }

FanDirectors == { <<"V">>, <<"V">> \o Sep \o <<"W">>, NaN }

FanPool ==
    {[BlankRow EXCEPT !.listed_in = g, !.cast = c, !.director = d] :
        g \in FanGenres, c \in FanCasts, d \in FanDirectors}

InitFan == InitWith({FileOf(r) : r \in SeqsUpTo(FanPool, MaxFanRows)})

NextFan ==
    \/ load_data
    \/ preprocess_data
    \/ genre_analysis
    \/ director_analysis
    \/ cast_analysis
    \/ visualize_genres
    \/ Return

SpecFan == InitFan /\ [][NextFan]_vars

(* Search *)

\* self.df[self.df[col].str.contains(query, case=False, na=False)]: the
\* positions of the matching rows, in row order
Matches(col, query) ==
    SelectSeq([i \in 1..Len(df) |-> i], LAMBDA i : ContainsNoCase(df[i][col], query))

\* DataFrame.drop_duplicates() of a selection: a row is dropped when an
\* earlier row of the selection has the same value in every column; the
\* index label is not compared
RECURSIVE DropDuplicates(_)
DropDuplicates(sel) ==
    IF sel = <<>> THEN <<>>
    ELSE LET n == Len(sel)
             kept == DropDuplicates(SubSeq(sel, 1, n - 1))
         IN  IF \E k \in 1..(n - 1) : df[sel[k]] = df[sel[n]]
             THEN kept
             ELSE Append(kept, sel[n])

SearchColumns == <<"title", "cast", "director", "description">>

\* the first exception the four str.contains calls raise, "none" when all
\* four return
SearchError(query) ==
    LET RECURSIVE From(_)
        From(k) ==
            IF k > Len(SearchColumns) THEN "none"
            ELSE IF StrAccessError(SearchColumns[k]) # "none"
                 THEN StrAccessError(SearchColumns[k])
            ELSE IF RegexRaises(query) THEN "re.error"
            ELSE From(k + 1)
    IN  From(1)

PrintLimit == 10

\* the columns the result loop prints
PrintedColumns ==
    {"title", "release_year", "content_type", "listed_in", "rating", "description"}

\* the rows of a selection the result loop prints in full: it stops at
\* the first row whose description is missing (row['description'][:100]
\* raises TypeError) and after limit rows
RECURSIVE PrintedRows(_, _)
PrintedRows(sel, limit) ==
    IF sel = <<>> \/ limit = 0 \/ AccessError(PrintedColumns) # "none" THEN <<>>
    ELSE IF df[Head(sel)].description = NaN THEN <<>>
    ELSE <<Head(sel)>> \o PrintedRows(Tail(sel), limit - 1)

\* the exception the result loop raises, "none" when it completes: a
\* column it prints is absent (KeyError, at the first row), or a row
\* within the limit has no description (TypeError)
PrintError(sel, limit) ==
    IF sel = <<>> THEN "none"
    ELSE IF AccessError(PrintedColumns) # "none" THEN AccessError(PrintedColumns)
    ELSE IF \E k \in 1..Len(sel) : k <= limit /\ df[sel[k]].description = NaN
         THEN "TypeError"
    ELSE "none"

\* the raw texts typed at the prompt
SearchInputs ==
    { <<"a", "l">>, <<" ", "A", "L", " ">>, <<"b", ".">>, <<"(">>, <<>>, <<" ">> }

search_content ==
    /\ pc = "ready"
    /\ \E typed \in SearchInputs :
          LET query == Strip(typed)
              all_matches ==
                  DropDuplicates(Matches("title", query) \o Matches("cast", query)
                      \o Matches("director", query) \o Matches("description", query))
              result(val) ==
                  [op |-> "search_content",
                   status |-> IF PrintError(val, PrintLimit) = "none" THEN "ok" ELSE "raised",
                   error |-> PrintError(val, PrintLimit),
                   query |-> query, val |-> val,
                   printed |-> PrintedRows(val, PrintLimit)]
          IN  IF query = <<>>
              THEN /\ pc' = "reported"
                   /\ out' = [op |-> "search_content", status |-> "ok", error |-> "none",
                              query |-> query, val |-> <<>>, printed |-> <<>>]
                   /\ UNCHANGED <<csv, df, df_none, columns>>
              ELSE IF SearchError(query) # "none"
              THEN Raise("search_content", SearchError(query))
              ELSE /\ pc' = "reported"
                   /\ out' = result(all_matches)
                   /\ UNCHANGED <<csv, df, df_none, columns>>

MaxSearchRows == 3

Al == <<"A", "l">>
Bo == <<"B", "o">>

SearchPool ==
    {[BlankRow EXCEPT !.title = t, !.cast = c, !.director = d, !.description = e] :
        t \in {Al, Bo},
        c \in {Al \o Sep \o Bo, NaN},
        d \in {Bo, NaN},
        e \in {<<"a", "l", "l">>, <<"b", "y">>, NaN}}

InitSearch == InitWith({FileOf(r) : r \in SeqsUpTo(SearchPool, MaxSearchRows)})

NextSearch ==
    \/ load_data
    \/ preprocess_data
    \/ search_content
    \/ Return

SpecSearch == InitSearch /\ [][NextSearch]_vars

(* Recommend *)

GenresShown == 10
SampleSize == 5

\* ', '.join(items) raises TypeError when an item is a missing cell (a
\* float) instead of a text
JoinRaises(items) == NaN \in Range(items)

\* the content type the menu choice selects, NaN standing for None
ChosenType(choice) ==
    IF choice = <<"1">> THEN Movie
    ELSE IF choice = <<"2">> THEN TVShow
    ELSE NaN

\* the exception raised before the filters run (lines 520-528), "none"
\* when the prompts complete
PromptError ==
    IF StrAccessError("listed_in") # "none" THEN StrAccessError("listed_in")
    ELSE IF JoinRaises(FirstN(Unique(Explode(StrSplit(Column("listed_in")))), GenresShown))
         THEN "TypeError"
    ELSE IF AccessError({"rating"}) # "none" THEN AccessError({"rating"})
    ELSE IF JoinRaises(Unique(Column("rating"))) THEN "TypeError"
    ELSE "none"

\* the exception the filters raise (lines 531-540), "none" when they return
FilterError(content_type, genre, rating) ==
    IF content_type # NaN /\ AccessError({"content_type"}) # "none"
    THEN AccessError({"content_type"})
    ELSE IF genre # <<>> /\ RegexRaises(genre) THEN "re.error"
    ELSE "none"

\* filtered_df after the three filters: the positions of the rows kept
Filtered(content_type, genre, rating) ==
    SelectSeq([i \in 1..Len(df) |-> i],
        LAMBDA i :
            /\ content_type # NaN => df[i].content_type = content_type
            /\ genre # <<>> => ContainsNoCase(df[i].listed_in, genre)
            /\ rating # <<>> => df[i].rating = StrUpper(rating))

\* DataFrame.sample(n): every sequence of n different rows of the
\* selection can come out
Samples(sel, n) ==
    {s \in [1..n -> Range(sel)] : \A i, j \in 1..n : i # j => s[i] # s[j]}

Min(a, b) == IF a <= b THEN a ELSE b

\* what is typed at the three prompts
TypeChoices == { <<"1">>, <<"2">>, <<"3">> }
GenreInputs == { <<>>, <<"c", "o">> }
RatingInputs == { <<>>, <<"p", "g">> }

content_recommender ==
    /\ pc = "ready"
    /\ \E choice \in TypeChoices, typed_genre \in GenreInputs, typed_rating \in RatingInputs :
          LET content_type == ChosenType(Strip(choice))
              genre == Strip(typed_genre)
              rating == Strip(typed_rating)
              request == [content_type |-> content_type, genre |-> genre, rating |-> rating]
              filtered_df == Filtered(content_type, genre, rating)
              failed(error) ==
                  [op |-> "content_recommender", status |-> "raised", error |-> error,
                   request |-> request]
              result(val) ==
                  [op |-> "content_recommender",
                   status |-> IF PrintError(val, Len(val)) = "none" THEN "ok" ELSE "raised",
                   error |-> PrintError(val, Len(val)),
                   request |-> request, candidates |-> filtered_df, val |-> val,
                   printed |-> PrintedRows(val, Len(val))]
          IN  /\ pc' = "reported"
              /\ UNCHANGED <<csv, df, df_none, columns>>
              /\ IF PromptError # "none"
                 THEN out' = failed(PromptError)
                 ELSE IF FilterError(content_type, genre, rating) # "none"
                 THEN out' = failed(FilterError(content_type, genre, rating))
                 ELSE IF filtered_df = <<>>
                 THEN out' = result(<<>>)
                 ELSE \E recommendations \in
                            Samples(filtered_df, Min(SampleSize, Len(filtered_df))) :
                         out' = result(recommendations)

MaxRecommendRows == 6

Text == <<"t", "e", "x", "t">>

RecommendPool ==
    { [BlankRow EXCEPT !.type = Movie, !.listed_in = Dr \o Sep \o Co,
                       !.rating = PG, !.description = Text],
      [BlankRow EXCEPT !.type = TVShow, !.listed_in = Co,
                       !.rating = <<"p", "g">>, !.description = Text],
      [BlankRow EXCEPT !.type = Movie, !.listed_in = Dr,
                       !.rating = NaN, !.description = Text],
      [BlankRow EXCEPT !.type = TVShow, !.listed_in = NaN,
                       !.rating = R, !.description = Text] }

InitRecommend == InitWith({FileOf(r) : r \in SeqsUpTo(RecommendPool, MaxRecommendRows)})

NextRecommend ==
    \/ load_data
    \/ preprocess_data
    \/ content_recommender
    \/ Return

SpecRecommend == InitRecommend /\ [][NextRecommend]_vars

(* Keywords of the descriptions *)

\* str.split() without a separator: the maximal runs of non-blank characters
Words(s) ==
    LET starts == {i \in 1..Len(s) :
                      ~IsSpace(s[i]) /\ (i = 1 \/ IsSpace(s[i - 1]))}
        start(k) == CHOOSE i \in starts :
                        Cardinality({j \in starts : j < i}) = k - 1
        end(i) == CHOOSE e \in i..Len(s) :
                      /\ \A j \in i..e : ~IsSpace(s[j])
                      /\ e = Len(s) \/ IsSpace(s[e + 1])
    IN  [k \in 1..Cardinality(starts) |-> SubSeq(s, start(k), end(start(k)))]

\* sep.join(items), every item a text
RECURSIVE JoinWith(_, _)
JoinWith(items, sep) ==
    IF items = <<>> THEN <<>>
    ELSE IF Len(items) = 1 THEN items[1]
    ELSE items[1] \o sep \o JoinWith(Tail(items), sep)

\* Series.fillna(''): a missing cell becomes the empty text
FillNa(values) ==
    [i \in 1..Len(values) |-> IF values[i] = NaN THEN <<>> ELSE values[i]]

\* ' '.join(self.df['description'].fillna('').str.lower())
AllDescriptions ==
    LET cells == FillNa(Column("description"))
    IN  JoinWith([i \in 1..Len(cells) |-> StrLower(cells[i])], <<" ">>)

StopWords ==
    {<<"t", "h", "e">>, <<"a">>, <<"a", "n">>, <<"a", "n", "d">>,
     <<"o", "r">>, <<"b", "u", "t">>, <<"i", "n">>, <<"o", "n">>,
     <<"a", "t">>, <<"t", "o">>, <<"f", "o", "r">>, <<"o", "f">>,
     <<"w", "i", "t", "h">>, <<"b", "y">>, <<"i", "s">>, <<"a", "r", "e">>,
     <<"w", "a", "s">>, <<"w", "e", "r", "e">>, <<"b", "e">>,
     <<"b", "e", "e", "n">>, <<"h", "a", "v", "e">>, <<"h", "a", "s">>,
     <<"h", "a", "d">>, <<"d", "o">>, <<"d", "o", "e", "s">>,
     <<"d", "i", "d">>, <<"w", "i", "l", "l">>, <<"w", "o", "u", "l", "d">>,
     <<"c", "o", "u", "l", "d">>, <<"s", "h", "o", "u", "l", "d">>,
     <<"m", "a", "y">>, <<"m", "i", "g", "h", "t">>, <<"m", "u", "s", "t">>,
     <<"c", "a", "n">>, <<"t", "h", "i", "s">>, <<"t", "h", "a", "t">>,
     <<"t", "h", "e", "s", "e">>, <<"t", "h", "o", "s", "e">>, <<"i">>,
     <<"y", "o", "u">>, <<"h", "e">>, <<"s", "h", "e">>, <<"i", "t">>,
     <<"w", "e">>, <<"t", "h", "e", "y">>, <<"t", "h", "e", "m">>,
     <<"t", "h", "e", "i", "r">>, <<"w", "h", "a", "t">>,
     <<"w", "h", "i", "c", "h">>, <<"w", "h", "o">>, <<"w", "h", "e", "n">>,
     <<"w", "h", "e", "r", "e">>, <<"w", "h", "y">>, <<"h", "o", "w">>,
     <<"a", "l", "l">>, <<"a", "n", "y">>, <<"b", "o", "t", "h">>,
     <<"e", "a", "c", "h">>, <<"f", "e", "w">>, <<"m", "o", "r", "e">>,
     <<"m", "o", "s", "t">>, <<"o", "t", "h", "e", "r">>,
     <<"s", "o", "m", "e">>, <<"s", "u", "c", "h">>, <<"n", "o">>,
     <<"n", "o", "r">>, <<"n", "o", "t">>, <<"o", "n", "l", "y">>,
     <<"o", "w", "n">>, <<"s", "a", "m", "e">>, <<"s", "o">>,
     <<"t", "h", "a", "n">>, <<"t", "o", "o">>, <<"v", "e", "r", "y">>,
     <<"j", "u", "s", "t">>, <<"n", "o", "w">>}

\* len(word) > 3
MinWordLength == 4

\* the words kept for counting, in the order of the token stream
FilteredWords(stream) ==
    SelectSeq(stream, LAMBDA w : w \notin StopWords /\ Len(w) >= MinWordLength)

\* the number of keywords the ranking lists
TopKeywords == 10

\* keyword_analysis(): returns the Counter of the kept words and prints
\* its most_common(10)
keyword_analysis ==
    /\ pc = "ready"
    /\ IF AccessError({"description"}) # "none"
       THEN Raise("keyword_analysis", AccessError({"description"}))
       ELSE LET word_counts == Counter(FilteredWords(Words(AllDescriptions)))
            IN  /\ pc' = "reported"
                /\ out' = [op |-> "keyword_analysis", status |-> "ok",
                           val |-> word_counts,
                           printed |-> MostCommon(word_counts, TopKeywords)]
                /\ UNCHANGED <<csv, df, df_none, columns>>

MaxKeywordRows == 3

LostCity ==
    <<"T", "h", "e", " ", "l", "o", "s", "t", " ", "c", "i", "t", "y", " ",
      "a", "n", "d", " ", "t", "h", "e", " ", "L", "o", "s", "t", " ", "c",
      "r", "e", "w">>

CrewFindsGold ==
    <<"N", "e", "w", " ", "c", "r", "e", "w", " ", "f", "i", "n", "d", "s", " ", "g", "o", "l",
      "d">>

CityCrew ==
    <<"c", "i", "t", "y", " ", " ", "c", "r", "e", "w", ",", " ", "c", "i",
      "t", "y">>

NineKids ==
    <<"n", "i", "n", "e", " ", "k", "i", "d", "s", " ", "s", "e", "e", "k",
      " ", "g", "o", "l", "d", " ", "n", "e", "a", "r", " ", "c", "o", "l",
      "d", " ", "d", "a", "r", "k", " ", "d", "e", "e", "p", " ", "l", "a",
      "k", "e", " ", "o", "v", "e", "r", " ", "h", "i", "l", "l", " ", "p",
      "a", "s", "t", " ", "m", "i", "l", "l", " ", "t", "o", "w", "n">>

\* descriptions with stop words, short words, capitals, punctuation,
\* repeated blanks, a missing cell, and more distinct keywords than the
\* ranking lists
KeywordPool ==
    {[BlankRow EXCEPT !.description = d] :
        d \in {LostCity, CrewFindsGold, CityCrew, NineKids, NaN}}

InitKeyword == InitWith({FileOf(r) : r \in SeqsUpTo(KeywordPool, MaxKeywordRows)})

NextKeyword ==
    \/ load_data
    \/ preprocess_data
    \/ keyword_analysis
    \/ Return

SpecKeyword == InitKeyword /\ [][NextKeyword]_vars


(* Additions over time and durations *)

\* time_series_analysis(): the counts of year_added in ascending year
\* order, or nothing when the column is not there; self.df.columns on None
\* raises AttributeError
time_series_analysis ==
    /\ pc = "ready"
    /\ IF df_none
       THEN Raise("time_series_analysis", "AttributeError")
       ELSE IF "year_added" \notin columns
       THEN /\ pc' = "reported"
            /\ out' = [op |-> "time_series_analysis", status |-> "ok"]
            /\ UNCHANGED <<csv, df, df_none, columns>>
       ELSE \E counts \in ValueCounts(Column("year_added"), NaNNum) :
                Report("time_series_analysis", SortIndex(counts))

RECURSIVE Total(_)
Total(values) == IF values = <<>> THEN 0 ELSE Head(values) + Total(Tail(values))

\* what duration_analysis prints of a numeric column: nothing when every
\* cell is missing, else the mean (kept as the sum and the number of the
\* cells present), the minimum and the maximum
Describe(values) ==
    LET present == DropNull(values, NaNNum)
    IN  IF present = <<>> THEN <<>>
        ELSE <<[sum |-> Total(present), n |-> Len(present),
                min |-> CHOOSE x \in Range(present) : \A y \in Range(present) : x <= y,
                max |-> CHOOSE x \in Range(present) : \A y \in Range(present) : x >= y]>>

\* the cells of column col in the rows of the given content type
ColumnOfType(col, content_type) ==
    LET rows == SelectSeq(df, LAMBDA r : r.content_type = content_type)
    IN  [i \in 1..Len(rows) |-> rows[i][col]]

duration_analysis ==
    /\ pc = "ready"
    /\ IF AccessError({"content_type", "duration_min", "seasons"}) # "none"
       THEN Raise("duration_analysis",
                  AccessError({"content_type", "duration_min", "seasons"}))
       ELSE Report("duration_analysis",
                   [movies   |-> Describe(ColumnOfType("duration_min", Movie)),
                    tv_shows |-> Describe(ColumnOfType("seasons", TVShow))])


(* The analyzer as a whole: any file, every operation *)

MaxRows == 2

\* a file that cannot be read
NoFile == [exists |-> FALSE, columns |-> {}, rows |-> <<>>]

\* a readable file that lacks column c
FileWithout(rows, c) ==
    [exists  |-> TRUE,
     columns |-> RawColumns \ {c},
     rows    |-> [i \in 1..Len(rows) |-> [f \in RawColumns \ {c} |-> rows[i][f]]]]

Pool ==
    { [title |-> Al, type |-> Movie, country |-> US, release_year |-> 2020,
       rating |-> PG, duration |-> <<"9", "0", " ", "m", "i", "n">>,
       listed_in |-> Dr \o Sep \o Co, cast |-> Al \o Sep \o Bo, director |-> Bo,
       description |-> <<"a", "l", "l">>,
       date_added |-> <<"M", "a", "y", " ", "1", ",", " ", "2", "0", "2", "0">>],
      [title |-> Bo, type |-> TVShow, country |-> NaN, release_year |-> 2019,
       rating |-> NaN, duration |-> <<"2", " ", "S", "e", "a", "s", "o", "n", "s">>,
       listed_in |-> Co, cast |-> NaN, director |-> NaN, description |-> NaN,
       date_added |-> NaN],
      [title |-> Al, type |-> Movie, country |-> US, release_year |-> 2019,
       rating |-> R, duration |-> <<"c", "a", " ", "m", "i", "n">>,
       listed_in |-> Dr, cast |-> Bo, director |-> Al, description |-> <<"b", "y">>,
       date_added |-> <<"s", "o", "o", "n">>] }

Files ==
    {NoFile}
    \cup {FileOf(r) : r \in SeqsUpTo(Pool, MaxRows)}
    \cup {FileWithout(r, c) : r \in SeqsUpTo(Pool, MaxRows), c \in RawColumns}

Init == InitWith(Files)

Next ==
    \/ load_data
    \/ preprocess_data
    \/ content_type_analysis
    \/ country_analysis
    \/ release_year_analysis
    \/ rating_analysis
    \/ genre_analysis
    \/ time_series_analysis
    \/ advanced_content_analysis
    \/ director_analysis
    \/ cast_analysis
    \/ duration_analysis
    \/ keyword_analysis
    \/ visualize_genres
    \/ search_content
    \/ content_recommender
    \/ Return

Spec == Init /\ [][Next]_vars

(* Claims about derivation, checked under SpecDerive *)

\* derivation has completed on a loaded record set
Derived == pc = "ready" /\ ~df_none

\* C8: for every derived record, a raw duration containing "min" gives
\* minutes equal to its leading integer token and null seasons, a raw
\* duration containing "Season" gives seasons equal to its leading integer
\* token and null minutes, a duration containing neither (or missing) gives
\* both null, and minutes and seasons are never both non-null.
C8_DurationExclusive ==
    Derived =>
        \A i \in 1..Len(df) :
            LET x == df[i].duration
                lead == DecimalValue(LeadingToken(x))
            IN  /\ HasMin(x) => df[i].duration_min = lead /\ df[i].seasons = NaNNum
                /\ HasSeason(x) => df[i].seasons = lead /\ df[i].duration_min = NaNNum
                /\ ~HasMin(x) /\ ~HasSeason(x) =>
                       df[i].duration_min = NaNNum /\ df[i].seasons = NaNNum
                /\ ~(df[i].duration_min # NaNNum /\ df[i].seasons # NaNNum)

\* C9: derivation never raises and never discards or reorders a record: on
\* a readable file preprocess_data returns, and the derived record set has
\* the rows of the file, in the order of the file, with a malformed or
\* missing date or duration showing only as null derived fields.
C9_DerivationTotal ==
    /\ pc # "raised"
    /\ Derived =>
          /\ Len(df) = Len(csv.rows)
          /\ \A i \in 1..Len(df) :
                /\ \A c \in RawColumns \ {"date_added"} : df[i][c] = csv.rows[i][c]
                /\ df[i].date_added = ToDatetime(csv.rows[i].date_added)

(* Claims about the single-key counts and cross-tabulations, checked
   under SpecCount *)

RECURSIVE SumCounts(_)
SumCounts(counts) ==
    IF counts = <<>> THEN 0
    ELSE counts[1][2] + SumCounts(Tail(counts))

CountOps ==
    {"content_type_analysis", "country_analysis", "release_year_analysis",
     "rating_analysis"}

CountReported(op) == pc = "reported" /\ out.op = op /\ out.status = "ok"

\* C4: the counts a single-key count returns (content kind, country,
\* release year, rating) sum to the number of records, a record with a
\* null key being counted under a bucket of its own and never dropped.
C4_CountsSumToRecords ==
    \A op \in CountOps :
        CountReported(op) => SumCounts(out.val) = Len(df)

\* the sum of a cross-tabulation's row for outer key x, 0 when it has no
\* such row
RECURSIVE SumOver(_, _)
SumOver(f, S) ==
    IF S = {} THEN 0
    ELSE LET y == CHOOSE z \in S : TRUE
         IN  f[y] + SumOver(f, S \ {y})

RowSum(tab, x) ==
    IF x \in DOMAIN tab.cell THEN SumOver(tab.cell[x], DOMAIN tab.cell[x]) ELSE 0

\* a cross-tabulation agrees with the single-key count of its outer key
RowSumsAgree(tab, a, anull, b) ==
    /\ \A x \in Range(Column(a)) \ {anull} :
          RowSum(tab, x) = CountOf(Column(a), x)
    /\ \A x \in DOMAIN tab.cell : \A y \in DOMAIN tab.cell[x] :
          (~\E i \in 1..Len(df) : df[i][a] = x /\ df[i][b] = y) => tab.cell[x][y] = 0

\* C5: in each cross-tabulation (release year by content kind, country by
\* content kind, release year by rating) the counts of a fixed outer key
\* summed over all inner keys equal the number of records with that outer
\* key, also when records have a null inner or outer key, and a
\* combination that occurs in no record has count 0.
C5_RowSumsMatchCounts ==
    CountReported("advanced_content_analysis") =>
        /\ RowSumsAgree(out.val.content_by_year, "release_year", NaNNum, "content_type")
        /\ RowSumsAgree(out.val.country_content, "country", NaN, "content_type")
        /\ RowSumsAgree(out.val.rating_by_year, "release_year", NaNNum, "rating")

\* the column a single-key count counts
CountedColumn(op) ==
    CASE op = "content_type_analysis" -> "content_type"
      [] op = "country_analysis" -> "country"
      [] op = "release_year_analysis" -> "release_year"
      [] op = "rating_analysis" -> "rating"

\* the position of the first cell of a column that holds k
FirstSeenAt(values, k) ==
    CHOOSE i \in 1..Len(values) :
        values[i] = k /\ \A j \in 1..(i - 1) : values[j] # k

CountDescending(counts) ==
    \A i, j \in 1..Len(counts) : i < j => counts[i][2] >= counts[j][2]

TiesFirstSeen(counts, values) ==
    \A i, j \in 1..Len(counts) :
        i < j /\ counts[i][2] = counts[j][2] =>
            FirstSeenAt(values, counts[i][1]) < FirstSeenAt(values, counts[j][1])

\* C10 as stated: every single-key count (content kind, country, release
\* year, rating) is sorted by count descending, and among equal counts the
\* key first seen in record order comes first.
C10_SortedByCountFirstSeen ==
    \A op \in CountOps :
        CountReported(op) =>
            /\ CountDescending(out.val)
            /\ TiesFirstSeen(out.val, Column(CountedColumn(op)))

\* C10 as amended: the counts of content kind, country and rating are
\* sorted by count descending, and the release-year count is sorted by
\* release year ascending; each lists every non-null key once with the
\* number of records that have it.
C10_SortedAmended ==
    \A op \in CountOps :
        CountReported(op) =>
            /\ \A i, j \in 1..Len(out.val) : i < j => out.val[i][1] # out.val[j][1]
            /\ \A i \in 1..Len(out.val) :
                  out.val[i][2] = CountOf(Column(CountedColumn(op)), out.val[i][1])
            /\ IF op = "release_year_analysis"
               THEN /\ {out.val[i][1] : i \in 1..Len(out.val)}
                          = Range(Column("release_year")) \ {NaNNum}
                    /\ \A i, j \in 1..Len(out.val) : i < j => out.val[i][1] < out.val[j][1]
               ELSE /\ {out.val[i][1] : i \in 1..Len(out.val)}
                          = Range(Column(CountedColumn(op))) \ {NaN}
                    /\ CountDescending(out.val)

\* the release-year count of records whose later year is the more
\* frequent one: sorted by year, its counts ascend
C10_Witness ==
    /\ CountReported("release_year_analysis")
    /\ Len(out.val) >= 2
    /\ out.val[1][2] < out.val[2][2]

(* Claims about the fan-out counts and the pair counts, checked under
   SpecFan *)

FanOps == {"genre_analysis", "director_analysis", "cast_analysis"}

FanColumn(op) ==
    CASE op = "genre_analysis" -> "listed_in"
      [] op = "director_analysis" -> "director"
      [] op = "cast_analysis" -> "cast"

\* the values row i lists in a multi-valued column
ValuesOfRow(col, i) ==
    IF df[i][col] = NaN THEN {} ELSE Range(Split(df[i][col], <<",", " ">>))

\* the number of records that list value v in the column
RecordsListing(col, v) == Cardinality({i \in 1..Len(df) : v \in ValuesOfRow(col, i)})

\* C6: in the fan-out count of genres, cast and director every record adds
\* exactly 1 to each distinct value it lists and 0 to every other value, so
\* the count of a value is the number of records that list it, also when a
\* record's raw list repeats the value.
C6_FanOutCountsRecords ==
    \A op \in FanOps :
        CountReported(op) =>
            /\ {out.val[k][1] : k \in 1..Len(out.val)}
                  = UNION {ValuesOfRow(FanColumn(op), i) : i \in 1..Len(df)}
            /\ \A k \in 1..Len(out.val) :
                  out.val[k][2] = RecordsListing(FanColumn(op), out.val[k][1])

\* C7: the pair counts hold one counter per unordered pair {X, Y} of
\* different genres, equal to the number of records whose genre list
\* contains both X and Y: no counter is a self-pair, no record counts a
\* pair twice, and [A, B] and [B, A] feed the same counter.
C7_PairCountsUnordered ==
    CountReported("visualize_genres") =>
        /\ \A k \in 1..Len(out.val) :
              LET x == out.val[k][1][1]
                  y == out.val[k][1][2]
              IN  /\ x # y
                  /\ out.val[k][2] =
                        Cardinality({i \in 1..Len(df) :
                            {x, y} \subseteq ValuesOfRow("listed_in", i)})
        /\ \A k, l \in 1..Len(out.val) :
              k # l => {out.val[k][1][1], out.val[k][1][2]}
                          # {out.val[l][1][1], out.val[l][1][2]}
        /\ \A i \in 1..Len(df) :
              \A x, y \in ValuesOfRow("listed_in", i) :
                  x # y => \E k \in 1..Len(out.val) :
                              {out.val[k][1][1], out.val[k][1][2]} = {x, y}

(* Claims about search, checked under SpecSearch *)

\* a sequence with only the first occurrence of each element kept
RECURSIVE KeepFirst(_)
KeepFirst(s) ==
    IF s = <<>> THEN <<>>
    ELSE LET n == Len(s)
             kept == KeepFirst(SubSeq(s, 1, n - 1))
         IN  IF s[n] \in Range(kept) THEN kept ELSE Append(kept, s[n])

\* C1: for a non-empty query the result lists every record that matches in
\* title, cast, director or description exactly once and no other record,
\* in the order of the title matches, then the cast, director and
\* description matches (each in record order) with only the first
\* occurrence of each record kept; two distinct records are never merged
\* into one entry and no record is listed twice.
C1_SearchUnionInOrder ==
    (pc = "reported" /\ out.op = "search_content" /\ "val" \in DOMAIN out
        /\ out.query # <<>>) =>
        /\ out.val = KeepFirst(Matches("title", out.query) \o Matches("cast", out.query)
                        \o Matches("director", out.query)
                        \o Matches("description", out.query))
        /\ \A k, l \in 1..Len(out.val) : k # l => out.val[k] # out.val[l]

(* Claims about recommend, checked under SpecRecommend *)

RecommendCalled == pc = "reported" /\ out.op = "content_recommender"

\* the records recommend hands back: the sample when it got as far as
\* drawing one, none otherwise
Recommended == IF "val" \in DOMAIN out THEN out.val ELSE <<>>

\* C2: for any record set and any criteria recommend returns exactly
\* min(5, |candidates|) records, pairwise distinct and all taken from the
\* filtered candidate set.
C2_SampleOfCandidates ==
    RecommendCalled =>
        LET candidates == Filtered(out.request.content_type, out.request.genre,
                                   out.request.rating)
        IN  /\ Len(Recommended) = Min(5, Len(candidates))
            /\ \A i, j \in 1..Len(Recommended) : i # j => Recommended[i] # Recommended[j]
            /\ Range(Recommended) \subseteq Range(candidates)

\* text a contains text b, upper and lower case letters taken as equal
ContainsFolded(a, b) == StrIn(StrLower(b), StrLower(a))

\* C3: the candidate set of recommend is exactly the records that satisfy
\* every non-empty criterion: content kind equal to the requested kind,
\* genre text containing the genre string case-insensitively, rating equal
\* to the requested rating case-insensitively; a record with null genres
\* or null rating is excluded by that criterion and causes no failure, and
\* an omitted criterion does not narrow the set.
C3_ConjunctiveFilter ==
    RecommendCalled =>
        /\ "candidates" \in DOMAIN out
        /\ out.candidates =
              SelectSeq([i \in 1..Len(df) |-> i],
                  LAMBDA i :
                      /\ out.request.content_type # NaN =>
                            df[i].content_type = out.request.content_type
                      /\ out.request.genre # <<>> =>
                            /\ df[i].listed_in # NaN
                            /\ ContainsFolded(df[i].listed_in, out.request.genre)
                      /\ out.request.rating # <<>> =>
                            /\ df[i].rating # NaN
                            /\ StrLower(df[i].rating) = StrLower(out.request.rating))

\* whenever the sampling line is reached, the sample has min(5, n) pairwise
\* distinct rows of the n filtered rows
SampleWellFormed ==
    (RecommendCalled /\ "val" \in DOMAIN out) =>
        /\ Len(out.val) = Min(SampleSize, Len(out.candidates))
        /\ Cardinality(Range(out.val)) = Len(out.val)
        /\ Range(out.val) \subseteq Range(out.candidates)

\* C12: for any record set, records with a null rating or null genres
\* included, and any criteria, recommend completes without raising: it
\* reports an explicit no-match result when the filtered candidate set is
\* empty and a sample otherwise, and never ends in an error state.
C12_RecommendNeverRaises ==
    RecommendCalled =>
        /\ out.status = "ok"
        /\ "val" \in DOMAIN out
        /\ out.candidates = <<>> <=> out.val = <<>>


(* Claims about the keyword ranking, checked under SpecKeyword *)

\* the token stream of the loaded descriptions
TokenStream == Words(AllDescriptions)

KeywordReported ==
    pc = "reported" /\ out.op = "keyword_analysis" /\ out.status = "ok"

\* every entry is a kept word with its number of occurrences in the stream
CountsKeptWords(counts, stream) ==
    \A i \in 1..Len(counts) :
        /\ counts[i][1] \notin StopWords
        /\ Len(counts[i][1]) >= MinWordLength
        /\ counts[i][2] = CountOf(stream, counts[i][1])
        /\ counts[i][2] >= 1

\* descending counts, and among equal counts the word seen first in the
\* stream first
RankedFirstSeen(counts, stream) ==
    \A i, j \in 1..Len(counts) :
        i < j =>
            \/ counts[i][2] > counts[j][2]
            \/ /\ counts[i][2] = counts[j][2]
               /\ FirstSeenAt(stream, counts[i][1]) < FirstSeenAt(stream, counts[j][1])

RequiredColumns ==
    {"rating", "country", "listed_in", "cast", "director", "description"}

\* an analytical or query operation has run on the constructed analyzer
OperationRan == pc = "reported" /\ out.op # "none"

\* C13: when the data cannot be loaded or a required column (rating,
\* country, listed_in, cast, director, description) is absent from the
\* file, construction ends with a fatal error before any operation runs:
\* no operation ever runs on an analyzer without a record set or without
\* a required column.
C13_StructuralFailureIsFatal ==
    OperationRan => (~df_none /\ RequiredColumns \subseteq columns)


\* the record set derivation produces from the rows of the file
DerivedRows == WithContentType(WithSeasons(WithDurationMin(WithDates(csv.rows))))

DerivedColumns ==
    csv.columns \cup DateColumns \cup {"duration_min", "seasons", "content_type"}

\* C14: once derivation has completed, every analytical and query
\* operation leaves the record set as it is, whether it succeeds, finds
\* nothing or raises: after any sequence of operations the record set
\* still is the one derivation produced, with the same records, fields
\* and order.
C14_OperationsLeaveRecords ==
    (pc \in {"ready", "reported"} /\ ~df_none) =>
        (df = DerivedRows /\ columns = DerivedColumns)

\* recommend has raised on a derived record set of two or more records
C14_Witness ==
    /\ OperationRan
    /\ out.op = "content_recommender"
    /\ out.status = "raised"
    /\ ~df_none
    /\ Len(df) >= 2


====
